---------------------------- MODULE Spec2Model ----------------------------
(***************************************************************************)
(* A model of java_line (src/src/main.rs): a command-line tool that marks  *)
(* a directory as a project root with a `.java_line` directory, finds that *)
(* root by walking upward from the working directory, and writes class     *)
(* files and package manifests.                                            *)
(*                                                                         *)
(* The state is the filesystem the tool runs against, the process working  *)
(* directory, a record of the last call and what it returned, and the      *)
(* filesystem as it was before that call.  A string is a sequence of       *)
(* one-character strings; the fixed file names and template fragments of   *)
(* the source are single tokens of such a sequence.  A path is the         *)
(* sequence of its components below the filesystem root.  Every function   *)
(* of the source that reads the filesystem takes it as the parameter f     *)
(* (and the working directory as wd), so that a claim can compare the      *)
(* function on two filesystems.                                            *)
(***************************************************************************)
EXTENDS Integers, Sequences, FiniteSets, TLC

VARIABLES fs, cwd, last, before, writes

vars == <<fs, cwd, last, before, writes>>

---------------------------------------------------------------------------
(* Bounds of the model. *)

\* Depth of the deepest directory of the chain the walk climbs.
MaxDepth == 2
\* Longest package / directory name given on the command line.
MaxNameLen == 2
\* Longest class identifier given on the command line.
MaxIdLen == 2
\* Number of calls that change the filesystem in one behaviour.
MaxWrites == 1

---------------------------------------------------------------------------
(* Strings and paths. *)

RECURSIVE SeqsUpTo(_, _)
SeqsUpTo(S, n) ==
  IF n = 0 THEN {<<>>}
  ELSE LET shorter == SeqsUpTo(S, n - 1)
       IN shorter \cup {Append(s, c) : s \in shorter, c \in S}

\* Characters of the package and directory names tried: a letter and the
\* backslash, which a TOML basic string treats as an escape introducer.
NameChars == {"a", "\\"}
Names == SeqsUpTo(NameChars, MaxNameLen)

\* Characters of the class identifiers tried.
IdChars == {"a"}
Identifiers == SeqsUpTo(IdChars, MaxIdLen)

Some(v) == [some |-> TRUE, v |-> v]
None == [some |-> FALSE, v |-> <<>>]

Root == <<>>
Parent(p) == SubSeq(p, 1, Len(p) - 1)
FileName(p) == p[Len(p)]
Join(dir, name) == Append(dir, name)

\* ".java_line", the name init creates and find_root looks for.
Marker == <<".java_line">>
\* "pack_def.toml", the manifest's file name.
PackDef == <<"pack_def.toml">>

---------------------------------------------------------------------------
(* The filesystem: a function from the existing paths to their nodes. *)

DirNode == [kind |-> "dir", target |-> <<>>, text |-> <<>>]
FileNode(t) == [kind |-> "file", target |-> <<>>, text |-> t]
LinkNode(t) == [kind |-> "link", target |-> t, text |-> <<>>]

Exists(f, p) == p \in DOMAIN f
IsDir(f, p) == Exists(f, p) /\ f[p].kind = "dir"
IsFile(f, p) == Exists(f, p) /\ f[p].kind = "file"

\* The entries read_dir lists for directory d.
Children(f, d) ==
  {p \in DOMAIN f : Len(p) = Len(d) + 1 /\ SubSeq(p, 1, Len(d)) = d}

WithNode(f, p, node) == [q \in DOMAIN f \cup {p} |-> IF q = p THEN node ELSE f[q]]

OkPath(p) == [ok |-> TRUE, path |-> p]
ErrPath(p) == [ok |-> FALSE, path |-> p]

\* fs::canonicalize of a path whose parent is canonical: symbolic links are
\* followed to the node they end at; a missing target or a loop is an Err
\* (its path is the place where resolution stopped).
RECURSIVE Follow(_, _, _)
Follow(f, p, seen) ==
  IF ~Exists(f, p) THEN ErrPath(p)
  ELSE IF f[p].kind # "link" THEN OkPath(p)
  ELSE IF p \in seen THEN ErrPath(p)
  ELSE Follow(f, f[p].target, seen \cup {p})

canonicalize(f, p) == Follow(f, p, {})

---------------------------------------------------------------------------
(* Root discovery. *)

Found(p) == [tag |-> "Found", path |-> p]
NotFound == [tag |-> "NotFound", path |-> <<>>]
ScanPanic == [tag |-> "Panic", path |-> <<>>]

SomePath(p) == [tag |-> "Some", path |-> p]
NonePath == [tag |-> "None", path |-> <<>>]
Panic == [tag |-> "Panic", path |-> <<>>]

\* The test of `find`: the canonical path's last component is ".java_line".
\* file_name() is None for the path "/", and the unwrap then panics.
NoFileName(c) == c.ok /\ c.path = Root
IsMarkerPath(c) == c.ok /\ c.path # Root /\ FileName(c.path) = Marker

\* One listing in the Some arm.  The iterator chain is lazy and read_dir's
\* order is unspecified, so the listing ends at whichever decisive entry
\* comes first: an entry whose canonical path is named ".java_line" (found),
\* or one whose unwrap panics.  Entries whose canonicalization fails are
\* filtered out; the second canonicalize is applied to the canonical path.
ScanSome(f, d) ==
  LET surviving == {e \in Children(f, d) : canonicalize(f, e).ok}
      again(e) == canonicalize(f, canonicalize(f, e).path)
      hits == {e \in surviving : IsMarkerPath(again(e))}
      bad == {e \in surviving : ~again(e).ok \/ NoFileName(again(e))}
  IN {Found(again(e).path) : e \in hits}
       \cup (IF bad # {} THEN {ScanPanic} ELSE {})
       \cup (IF hits = {} /\ bad = {} THEN {NotFound} ELSE {})

\* One listing in the None arm: canonicalize(entry).unwrap() panics on an
\* entry whose canonicalization fails; nothing is filtered.
ScanNone(f, d) ==
  LET hits == {e \in Children(f, d) : IsMarkerPath(canonicalize(f, e))}
      bad == {e \in Children(f, d) :
                ~canonicalize(f, e).ok \/ NoFileName(canonicalize(f, e))}
  IN {Found(canonicalize(f, e).path) : e \in hits}
       \cup (IF bad # {} THEN {ScanPanic} ELSE {})
       \cup (IF hits = {} /\ bad = {} THEN {NotFound} ELSE {})

\* find_root: the set of results the call can produce on filesystem f with
\* working directory wd.  In the None arm pwd.parent().unwrap() panics when
\* the working directory is "/".
RECURSIVE find_root(_, _, _)
find_root(f, wd, dir) ==
  IF dir.some
  THEN UNION {
         IF o.tag = "Found" THEN {SomePath(Parent(o.path))}
         ELSE IF o.tag = "Panic" THEN {Panic}
         ELSE IF dir.v = Root THEN {NonePath}
         ELSE find_root(f, wd, Some(Parent(dir.v)))
         : o \in ScanSome(f, dir.v)}
  ELSE UNION {
         IF o.tag = "Found" THEN {SomePath(Parent(o.path))}
         ELSE IF o.tag = "Panic" THEN {Panic}
         ELSE IF wd = Root THEN {Panic}
         ELSE find_root(f, wd, Some(Parent(wd)))
         : o \in ScanNone(f, wd)}

\* is_java_line_project: "true", "false", or "Panic" when find_root panics.
is_java_line_project(f, wd) ==
  {IF r.tag = "Some" THEN "true" ELSE IF r.tag = "None" THEN "false" ELSE "Panic"
     : r \in find_root(f, wd, None)}

is_java_line_root_dir(f, wd) ==
  {IF r.tag = "Some" THEN (IF r.path = wd THEN "true" ELSE "false")
   ELSE IF r.tag = "None" THEN "false" ELSE "Panic"
     : r \in find_root(f, wd, None)}

\* DirBuilder::create of a relative one-component path: mkdir fails when the
\* name is empty or an entry of that name exists, whatever its kind.
CanCreateDir(f, wd, name) == name # <<>> /\ ~Exists(f, Join(wd, name))

\* init: the message printed and the filesystem left behind.
init(f, wd) ==
  IF CanCreateDir(f, wd, Marker)
  THEN [out |-> "New root created", fs |-> WithNode(f, Join(wd, Marker), DirNode)]
  ELSE [out |-> "Root already exists", fs |-> f]

---------------------------------------------------------------------------
(* Files. *)

\* The place a relative "{dir}/{name}" names: an empty dir gives "/{name}",
\* an absolute path.
RelDir(wd, dir) == IF dir = <<>> THEN Root ELSE Join(wd, dir)

\* The node a path under directory d opens: d and the entry itself are
\* resolved through symbolic links.
Opened(f, d, name) ==
  LET dc == canonicalize(f, d)
  IN IF dc.ok /\ IsDir(f, dc.path)
     THEN canonicalize(f, Join(dc.path, name))
     ELSE ErrPath(Join(d, name))

\* File::create: the file is created or truncated.  It fails when the
\* directory is missing, when the entry is a directory, and when a dangling
\* link points into a missing directory.
FileCreate(f, d, name) ==
  LET c == Opened(f, d, name)
  IN IF c.ok
     THEN (IF IsFile(f, c.path) THEN OkPath(c.path) ELSE ErrPath(c.path))
     ELSE IF ~Exists(f, c.path) /\ c.path # Root /\ IsDir(f, Parent(c.path))
          THEN OkPath(c.path)
          ELSE ErrPath(c.path)

---------------------------------------------------------------------------
(* The package manifest. *)

Quote == "\""
Backslash == "\\"

\* format!("name=\"{}\"", package_name)
FormatManifest(name) == <<"name=", Quote>> \o name \o <<Quote>>

OkStr(s) == [tag |-> "Ok", str |-> s]
PanicStr == [tag |-> "Panic", str |-> <<>>]

\* The body of a TOML basic string from position i: a backslash must be
\* followed by an escape character (of the characters that occur: the quote
\* or the backslash), an unescaped quote ends the string and must end the
\* document.
RECURSIVE BasicString(_, _, _)
BasicString(text, i, acc) ==
  IF i > Len(text) THEN PanicStr
  ELSE IF text[i] = Quote
       THEN (IF i = Len(text) THEN OkStr(acc) ELSE PanicStr)
  ELSE IF text[i] = Backslash
       THEN (IF i < Len(text) /\ text[i + 1] \in {Quote, Backslash}
             THEN BasicString(text, i + 2, Append(acc, text[i + 1]))
             ELSE PanicStr)
  ELSE BasicString(text, i + 1, Append(acc, text[i]))

\* toml::from_str::<JavaLineConfig>(..).unwrap(), then info.name
toml_from_str(text) ==
  IF Len(text) >= 3 /\ text[1] = "name=" /\ text[2] = Quote
  THEN BasicString(text, 3, <<>>)
  ELSE PanicStr

\* get_package_info: "" when the manifest cannot be opened, a panic when it
\* cannot be read or parsed.
get_package_info(f, wd, target_dir) ==
  LET c == Opened(f, RelDir(wd, target_dir), PackDef)
  IN IF ~c.ok THEN OkStr(<<>>)
     ELSE IF ~IsFile(f, c.path) THEN PanicStr
     ELSE toml_from_str(f[c.path].text)

Outcome(res, out, f) == [res |-> res, out |-> out, fs |-> f]

\* new_package without the return after "Package already exists": the
\* manifest is written into the directory that was there.
new_package_KeepsGoing(f, wd, package_name) ==
  {IF b = "Panic" THEN Outcome("Panic", "", f)
   ELSE IF b = "false"
        THEN Outcome("Returned", "You are not in a java_line project", f)
   ELSE LET made == IF CanCreateDir(f, wd, package_name)
                    THEN WithNode(f, Join(wd, package_name), DirNode)
                    ELSE f
            c == FileCreate(made, RelDir(wd, package_name), PackDef)
        IN IF c.ok
           THEN Outcome("Returned",
                        IF made = f THEN "Package already exists" ELSE "",
                        WithNode(made, c.path, FileNode(FormatManifest(package_name))))
           ELSE Outcome("Panic", "", made)
   : b \in is_java_line_project(f, wd)}

\* new_package: the outcomes the call can have.
new_package(f, wd, package_name) ==
  {IF b = "Panic" THEN Outcome("Panic", "", f)
   ELSE IF b = "false"
        THEN Outcome("Returned", "You are not in a java_line project", f)
   ELSE IF ~CanCreateDir(f, wd, package_name)
        THEN Outcome("Returned", "Package already exists", f)
   ELSE LET made == WithNode(f, Join(wd, package_name), DirNode)
            c == FileCreate(made, RelDir(wd, package_name), PackDef)
        IN IF c.ok
           THEN Outcome("Returned", "",
                        WithNode(made, c.path, FileNode(FormatManifest(package_name))))
           ELSE Outcome("Panic", "", made)
   : b \in is_java_line_project(f, wd)}

---------------------------------------------------------------------------
(* Class files. *)

\* char::to_uppercase on the characters that occur.
Upper(c) == IF c = "a" THEN "A" ELSE c

\* Capitalize uppercasing every character.
Capitalize_AllUpper(s) == [i \in 1..Len(s) |-> Upper(s[i])]

\* The first character uppercased, c.as_str() appended.
Capitalize(s) == IF s = <<>> THEN <<>> ELSE <<Upper(Head(s))>> \o Tail(s)

NL == <<"\n">>

\* [..].join(sep)
RECURSIVE JoinWith(_, _)
JoinWith(parts, sep) ==
  IF parts = <<>> THEN <<>>
  ELSE IF Len(parts) = 1 THEN parts[1]
  ELSE parts[1] \o sep \o JoinWith(Tail(parts), sep)

ImportLine(info) == <<"import ">> \o info \o <<";">>
ClassLine(class_name) == <<"class ">> \o class_name \o <<" {">>
MainLine == <<"\tpublic static void main(String[] args) {">>
MainEnd == <<"\t}">>
ClassEnd == <<"}">>

\* file_content.join("\n") of create_class's three templates.
ClassBody(class_name) ==
  <<ClassLine(class_name), NL, MainLine, NL, MainEnd, NL, ClassEnd>>

FileContent(class_name, package_info) ==
  IF package_info.some
  THEN JoinWith(<<ImportLine(package_info.v), NL>> \o ClassBody(class_name), NL)
  ELSE JoinWith(ClassBody(class_name), NL)

ClassFile(class_name) == class_name \o <<".java">>

\* create_class: ok is FALSE when File::create(..).unwrap() panics.  With
\* no parent directory the file goes to the working directory and never
\* gets an import line.
create_class(f, wd, class_file_name, parent_dir, package_info) ==
  LET class_name == Capitalize(class_file_name)
      c == IF parent_dir.some
           THEN FileCreate(f, RelDir(wd, parent_dir.v), ClassFile(class_name))
           ELSE FileCreate(f, wd, ClassFile(class_name))
      content == IF parent_dir.some
                 THEN FileContent(class_name, package_info)
                 ELSE FileContent(class_name, None)
  IN IF c.ok
     THEN [ok |-> TRUE, fs |-> WithNode(f, c.path, FileNode(content))]
     ELSE [ok |-> FALSE, fs |-> f]

\* AddClassInside without the is_empty() test: the import line is written
\* whatever get_package_info returned.
AddClassInside_AlwaysImports(f, wd, class_file_name, parent_dir) ==
  LET info == IF parent_dir.some
              THEN get_package_info(f, wd, parent_dir.v)
              ELSE OkStr(<<>>)
      made == create_class(f, wd, class_file_name, parent_dir, Some(info.str))
  IN IF info.tag = "Panic" THEN Outcome("Panic", "", f)
     ELSE IF made.ok THEN Outcome("Ok", "", made.fs)
     ELSE Outcome("Panic", "", f)

\* What add_class does once is_java_line_project() returned true.
AddClassInside(f, wd, class_file_name, parent_dir) ==
  LET info == IF parent_dir.some
              THEN get_package_info(f, wd, parent_dir.v)
              ELSE OkStr(<<>>)
      made == create_class(f, wd, class_file_name, parent_dir,
                           IF info.str = <<>> THEN None ELSE Some(info.str))
  IN IF info.tag = "Panic" THEN Outcome("Panic", "", f)
     ELSE IF made.ok THEN Outcome("Ok", "", made.fs)
     ELSE Outcome("Panic", "", f)

\* add_class creating the class whether or not a project was found.
add_class_Ungated(f, wd, class_file_name, parent_dir) ==
  {IF b = "Panic" THEN Outcome("Panic", "", f)
   ELSE AddClassInside(f, wd, class_file_name, parent_dir)
   : b \in is_java_line_project(f, wd)}

\* add_class: the outcomes the call can have.
add_class(f, wd, class_file_name, parent_dir) ==
  {IF b = "Panic" THEN Outcome("Panic", "", f)
   ELSE IF b = "false" THEN Outcome("Err", "", f)
   ELSE AddClassInside(f, wd, class_file_name, parent_dir)
   : b \in is_java_line_project(f, wd)}

---------------------------------------------------------------------------
(* The calls, as actions.  `last` records the call and what came of it,    *)
(* `before` the filesystem the call started from.                          *)

Call(op, arg, dir, res, out, path, str, again) ==
  [op |-> op, arg |-> arg, dir |-> dir, res |-> res, out |-> out,
   path |-> path, str |-> str, again |-> again]

NoCall == Call("none", <<>>, None, "", "", <<>>, <<>>, FALSE)

\* A call that changes the filesystem counts against MaxWrites.
Commit(newfs) ==
  /\ newfs # fs => writes < MaxWrites
  /\ fs' = newfs
  /\ before' = fs
  /\ writes' = IF newfs # fs THEN writes + 1 ELSE writes
  /\ UNCHANGED cwd

\* main's "init" branch; `again` tells that the call before was init too.
CmdInit ==
  /\ Commit(init(fs, cwd).fs)
  /\ last' = Call("init", <<>>, None, "Returned", init(fs, cwd).out, <<>>, <<>>,
                  last.op = "init")

CallFindRoot ==
  \E r \in find_root(fs, cwd, None) :
    /\ Commit(fs)
    /\ last' = Call("find_root", <<>>, None, r.tag, "", r.path, <<>>, FALSE)

CallIsProject ==
  \E b \in is_java_line_project(fs, cwd) :
    /\ Commit(fs)
    /\ last' = Call("is_java_line_project", <<>>, None, b, "", <<>>, <<>>, FALSE)

CallIsRootDir ==
  \E b \in is_java_line_root_dir(fs, cwd) :
    /\ Commit(fs)
    /\ last' = Call("is_java_line_root_dir", <<>>, None, b, "", <<>>, <<>>, FALSE)

\* main's "add package" branch.
CmdNewPackage ==
  \E name \in Names : \E o \in new_package(fs, cwd, name) :
    /\ Commit(o.fs)
    /\ last' = Call("new_package", name, None, o.res, o.out, <<>>, <<>>, FALSE)

CallGetPackageInfo ==
  \E dir \in Names :
    LET r == get_package_info(fs, cwd, dir)
    IN /\ Commit(fs)
       /\ last' = Call("get_package_info", <<>>, Some(dir), r.tag, "", <<>>, r.str,
                       FALSE)

\* main's "add class" branch, with and without a directory.
CmdAddClass ==
  \E id \in Identifiers, dir \in {None} \cup {Some(d) : d \in Names} :
  \E o \in add_class(fs, cwd, id, dir) :
    /\ Commit(o.fs)
    /\ last' = Call("add_class", id, dir, o.res, "", <<>>, <<>>, FALSE)

---------------------------------------------------------------------------
(* The directory trees root discovery is run against. *)

\* The directory at depth k of the chain: /, /d, /d/d, ...
Chain(k) == [i \in 1..k |-> <<"d">>]
Levels == 0..MaxDepth

\* A directory outside the chain, holding a project of its own (a real
\* ".java_line") and a directory of another name.  A link points at one of
\* the two, or at a path that does not exist.
Elsewhere == <<<<"x">>>>
OtherMarker == Join(Elsewhere, Marker)
OtherDir == Join(Elsewhere, <<"t">>)
Gone == Join(Elsewhere, <<"gone">>)

LinkNames == {Marker, <<"l">>}
LinkTargets == {OtherMarker, OtherDir, Gone}

FsOf(dirs, links, files) ==
  [p \in dirs \cup {l.path : l \in links} \cup {x.path : x \in files} |->
     IF p \in dirs THEN DirNode
     ELSE IF \E l \in links : l.path = p
          THEN LinkNode((CHOOSE l \in links : l.path = p).target)
          ELSE FileNode((CHOOSE x \in files : x.path = p).text)]

BaseDirs == {Chain(k) : k \in Levels} \cup {Elsewhere, OtherMarker, OtherDir}

\* Any working directory of the chain, real markers at any levels, and at
\* most one symbolic link, in a chain directory, named ".java_line" or "l".
InitResolve ==
  \E k \in Levels, marked \in SUBSET Levels :
  \E links \in {{}} \cup
       {{[path |-> Join(Chain(j), n), target |-> t]} :
          j \in Levels, n \in LinkNames, t \in LinkTargets} :
    /\ \A l \in links : l.path \notin {Join(Chain(j), Marker) : j \in marked}
    /\ fs = FsOf(BaseDirs \cup {Join(Chain(j), Marker) : j \in marked}, links, {})
    /\ cwd = Chain(k)
    /\ last = NoCall
    /\ before = fs
    /\ writes = 0

NextResolve == CmdInit \/ CallFindRoot \/ CallIsProject \/ CallIsRootDir

Spec == InitResolve /\ [][NextResolve]_vars

---------------------------------------------------------------------------
(* The directories the scaffolding commands are run in. *)

\* Where the working directory and the project marker are: inside a project
\* at its root, inside one below its root, outside any, in "/", and at the
\* root of a project beside a dangling link.
Places ==
  {[wd |-> Chain(1), marked |-> {Chain(1)}, links |-> {}],
   [wd |-> Chain(1), marked |-> {Root}, links |-> {}],
   [wd |-> Chain(1), marked |-> {}, links |-> {}],
   [wd |-> Root, marked |-> {}, links |-> {}],
   [wd |-> Chain(1), marked |-> {Chain(1)},
    links |-> {[path |-> Join(Chain(1), <<"l">>), target |-> Gone]}]}

\* The manifests a directory "a" found in the working directory may hold:
\* names written as new_package writes them, and a text that is no TOML.
OldManifests ==
  {FormatManifest(<<>>), FormatManifest(<<"a">>),
   FormatManifest(<<Backslash, Backslash>>), <<"garbage">>}

OldClass == <<"old">>

\* The working directory holds a class file A.java of an earlier run, and
\* possibly a directory "a", with or without a manifest.
InitScaffold ==
  \E place \in Places :
  \E pkg \in {[dir |-> FALSE, manifest |-> None], [dir |-> TRUE, manifest |-> None]}
               \cup {[dir |-> TRUE, manifest |-> Some(t)] : t \in OldManifests} :
    LET a == Join(place.wd, <<"a">>)
        dirs == BaseDirs \cup {Join(d, Marker) : d \in place.marked}
                  \cup (IF pkg.dir THEN {a} ELSE {})
        files == {[path |-> Join(place.wd, ClassFile(<<"A">>)), text |-> OldClass]}
                  \cup (IF pkg.manifest.some
                        THEN {[path |-> Join(a, PackDef), text |-> pkg.manifest.v]}
                        ELSE {})
    IN /\ fs = FsOf(dirs, place.links, files)
       /\ cwd = place.wd
       /\ last = NoCall
       /\ before = fs
       /\ writes = 0

\* One command is one process: it starts from the prompt and exits before
\* the next one starts; nothing but the filesystem outlives it.
Exit ==
  /\ last # NoCall
  /\ last' = NoCall
  /\ before' = fs
  /\ UNCHANGED <<fs, cwd, writes>>

Idle == last = NoCall

RunInit == Idle /\ CmdInit
RunNewPackage == Idle /\ CmdNewPackage
RunGetPackageInfo == Idle /\ CallGetPackageInfo
RunAddClass == Idle /\ CmdAddClass

NextScaffold ==
  RunInit \/ RunNewPackage \/ RunGetPackageInfo \/ RunAddClass \/ Exit

SpecScaffold == InitScaffold /\ [][NextScaffold]_vars

---------------------------------------------------------------------------
(* What the claims speak of, stated without the functions of the source. *)

\* d itself and the directories above it.
Ancestors(d) == {SubSeq(d, 1, k) : k \in 0..Len(d)}

HasMarkerChild(f, d) == Exists(f, Join(d, Marker))
Marked(f, d) == {a \in Ancestors(d) : HasMarkerChild(f, a)}

\* The nearest directory, from d upward, that has a child named ".java_line".
Nearest(f, d) ==
  CHOOSE a \in Marked(f, d) : \A b \in Marked(f, d) : Len(b) <= Len(a)

\* d lies in a project: d or a directory above it holds a real ".java_line".
InsideProject(f, d) == \E a \in Ancestors(d) : IsDir(f, Join(a, Marker))

\* f without the entries whose canonicalization fails.
WithoutFailing(f) == [p \in {q \in DOMAIN f : canonicalize(f, q).ok} |-> f[p]]

Result(call) == [tag |-> call.res, path |-> call.path]

\* The identifier with its first character uppercased, the rest unchanged.
ClassNameOf(id) == [i \in 1..Len(id) |-> IF i = 1 THEN Upper(id[i]) ELSE id[i]]

\* The directory a class file or a manifest lookup is aimed at.
TargetDir(wd, dir) ==
  IF ~dir.some THEN wd ELSE IF dir.v = <<>> THEN Root ELSE Join(wd, dir.v)

ManifestOf(wd, dir) == Join(TargetDir(wd, dir), PackDef)
ClassPathOf(wd, dir, id) == Join(TargetDir(wd, dir), ClassNameOf(id) \o <<".java">>)

ContainsSeq(text, sub) ==
  \E i \in 1..(Len(text) - Len(sub) + 1) : SubSeq(text, i, i + Len(sub) - 1) = sub

StartsWith(text, prefix) ==
  Len(text) >= Len(prefix) /\ SubSeq(text, 1, Len(prefix)) = prefix

HasImportLine(text) == \E i \in 1..Len(text) : text[i] = "import "

\* A main method with nothing but line breaks between its two lines.
HasEmptyMain(text) ==
  \E i, j \in 1..Len(text) :
    /\ i < j
    /\ text[i] = "\tpublic static void main(String[] args) {"
    /\ text[j] = "\t}"
    /\ \A k \in (i + 1)..(j - 1) : text[k] = "\n"

\* f and g differ at most at path p.
SameExceptAt(f, g, p) ==
  /\ DOMAIN f \cup {p} = DOMAIN g \cup {p}
  /\ \A q \in DOMAIN f \ {p} : f[q] = g[q]

---------------------------------------------------------------------------
(* The claims. *)

\* C1: whenever the working directory or a directory above it has a child
\* named ".java_line", find_root returns the nearest such directory.
C1_NearestMarkerFound ==
  (last.op = "find_root" /\ Marked(fs, cwd) # {})
    => Result(last) = SomePath(Nearest(fs, cwd))

\* C2: when neither the working directory nor any directory above it has a
\* marker, find_root returns None without panicking (also from "/"), and
\* is_java_line_project returns false.
C2_NoMarkerIsNone ==
  Marked(fs, cwd) = {}
    => /\ last.op = "find_root" => last.res = "None"
       /\ last.op = "is_java_line_project" => last.res = "false"

\* C3: at every level, the first included, an entry whose canonicalization
\* fails is skipped: find_root returns what it returns on the same tree
\* without such entries.
C3_FailingEntrySkipped ==
  last.op = "find_root"
    => Result(last) \in find_root(WithoutFailing(fs), cwd, None)

\* C10: when find_root returns Some(R), R is the working directory or a
\* directory above it, and R has a child named ".java_line".
C10_RootIsMarkedAncestor ==
  (last.op = "find_root" /\ last.res = "Some")
    => last.path \in Ancestors(cwd) /\ HasMarkerChild(fs, last.path)

\* C8: after init was called twice in a row, the working directory holds a
\* ".java_line" directory, the second call reported that the root already
\* exists and changed nothing, and it returned normally.
C8_InitTwiceLeavesMarkerDir ==
  (last.op = "init" /\ last.again)
    => /\ IsDir(fs, Join(cwd, Marker))
       /\ last.out = "Root already exists"
       /\ fs = before
       /\ last.res = "Returned"

\* C4, as claimed: after new_package(name) returned inside a project, the
\* manifest name/pack_def.toml exists and holds name="<name>", also when
\* the directory existed before the call.
C4_ManifestAlwaysWritten ==
  (last.op = "new_package" /\ last.res = "Returned" /\ last.arg # <<>>
     /\ InsideProject(before, cwd))
    => /\ IsFile(fs, ManifestOf(cwd, Some(last.arg)))
       /\ fs[ManifestOf(cwd, Some(last.arg))].text
            = <<"name=", Quote>> \o last.arg \o <<Quote>>

\* C4, amended: after new_package(name) returned inside a project, either
\* no entry called name existed before (and name is not empty), and then
\* the directory and its manifest exist and the manifest holds
\* name="<name>"; or "Package already exists" was printed and the
\* filesystem is as it was: no manifest is written or replaced.
C4_ManifestWrittenOnlyInNewDirectory ==
  (last.op = "new_package" /\ last.res = "Returned" /\ InsideProject(before, cwd))
    => IF last.arg # <<>> /\ ~Exists(before, Join(cwd, last.arg))
       THEN /\ IsDir(fs, Join(cwd, last.arg))
            /\ IsFile(fs, ManifestOf(cwd, Some(last.arg)))
            /\ fs[ManifestOf(cwd, Some(last.arg))].text
                 = <<"name=", Quote>> \o last.arg \o <<Quote>>
            /\ SameExceptAt(WithNode(before, Join(cwd, last.arg), DirNode), fs,
                            ManifestOf(cwd, Some(last.arg)))
            /\ last.out = ""
       ELSE fs = before /\ last.out = "Package already exists"

\* C4's case: the directory existed without a manifest, the call reported
\* it and returned, and there is still no manifest.
C4_Witness ==
  /\ last.op = "new_package" /\ last.res = "Returned"
  /\ InsideProject(before, cwd)
  /\ IsDir(before, Join(cwd, last.arg))
  /\ last.out = "Package already exists"
  /\ ~Exists(fs, ManifestOf(cwd, Some(last.arg)))

\* C5, as claimed: add_class outside a project (find_root gives None)
\* returns the error and leaves the filesystem alone; inside a project it
\* returns Ok.
C5_ErrOutsideOkInside ==
  last.op = "add_class"
    => /\ find_root(before, cwd, None) = {NonePath}
            => last.res = "Err" /\ fs = before
       /\ (\A r \in find_root(before, cwd, None) : r.tag = "Some")
            => last.res = "Ok"

\* C5, amended: outside a project add_class returns the error and leaves
\* the filesystem alone.  Inside a project it never returns the error: it
\* returns Ok with the class file written, or it panics with the filesystem
\* unchanged, which happens only when the target directory's manifest
\* cannot be read or parsed or the target directory does not exist.
C5_ErrOnlyOutsideProject ==
  last.op = "add_class"
    => /\ find_root(before, cwd, None) = {NonePath}
            => last.res = "Err" /\ fs = before
       /\ (\A r \in find_root(before, cwd, None) : r.tag = "Some")
            => /\ last.res \in {"Ok", "Panic"}
               /\ last.res = "Ok" => IsFile(fs, ClassPathOf(cwd, last.dir, last.arg))
               /\ last.res = "Panic"
                    => /\ fs = before
                       /\ last.dir.some
                       /\ \/ ~IsDir(before, TargetDir(cwd, last.dir))
                          \/ /\ IsFile(before, ManifestOf(cwd, last.dir))
                             /\ toml_from_str(before[ManifestOf(cwd, last.dir)].text).tag
                                  = "Panic"

\* C5's case: add_class with a target directory, outside any project,
\* returned the error.
C5_Witness ==
  /\ last.op = "add_class" /\ last.dir.some
  /\ find_root(before, cwd, None) = {NonePath}
  /\ last.res = "Err"

\* C6: a package created by new_package(n) in a project, where no entry n
\* existed, is read back by get_package_info(n) as exactly n; and
\* get_package_info returns "" for a directory without a manifest.
C6_PackageRoundTrip ==
  /\ (last.op = "new_package" /\ last.res = "Returned" /\ InsideProject(before, cwd)
        /\ ~Exists(before, Join(cwd, last.arg)))
       => get_package_info(fs, cwd, last.arg) = OkStr(last.arg)
  /\ (last.op = "get_package_info" /\ ~Exists(fs, ManifestOf(cwd, last.dir)))
       => last.res = "Ok" /\ last.str = <<>>

\* C7, as claimed: inside a project, the class file add_class(x, Some(dir))
\* wrote starts with an import line naming the manifest's name exactly when
\* dir holds a manifest, whatever that name is, the empty one included;
\* without a manifest it has no import line.
C7_ImportIffManifest ==
  (last.op = "add_class" /\ last.dir.some /\ last.res = "Ok")
    => LET text == fs[ClassPathOf(cwd, last.dir, last.arg)].text
           manifest == ManifestOf(cwd, last.dir)
       IN /\ IsFile(before, manifest)
               => StartsWith(text,
                    <<"import ">> \o toml_from_str(before[manifest].text).str
                      \o <<";">>)
          /\ ~Exists(before, manifest) => ~HasImportLine(text)

\* C7, amended: the class file starts with an import line naming the
\* manifest's name exactly when dir holds a manifest whose name is not
\* empty; with no manifest, or one whose name is empty, it has no import
\* line.
C7_ImportIffNamedManifest ==
  (last.op = "add_class" /\ last.dir.some /\ last.res = "Ok")
    => LET text == fs[ClassPathOf(cwd, last.dir, last.arg)].text
           manifest == ManifestOf(cwd, last.dir)
           name == IF IsFile(before, manifest)
                   THEN toml_from_str(before[manifest].text).str
                   ELSE <<>>
       IN IF name # <<>>
          THEN StartsWith(text, <<"import ">> \o name \o <<";">>)
          ELSE ~HasImportLine(text)

\* C7's case: the directory held a manifest with the empty name, and the
\* class file written into it has no import line.
C7_Witness ==
  /\ last.op = "add_class" /\ last.dir.some /\ last.res = "Ok"
  /\ IsFile(before, ManifestOf(cwd, last.dir))
  /\ before[ManifestOf(cwd, last.dir)].text = <<"name=", Quote, Quote>>
  /\ ~HasImportLine(fs[ClassPathOf(cwd, last.dir, last.arg)].text)

\* C9: add_class(id) without a directory, called where find_root finds a
\* root, returns Ok; and whenever it returns Ok it leaves <C>.java in the
\* working directory, C being id with its first character uppercased
\* (".java" for the empty id): the file holds "class <C> {", an empty main
\* method and no import line, whether or not it existed before, and nothing
\* else changed.
C9_ClassFileInWorkingDirectory ==
  (last.op = "add_class" /\ ~last.dir.some)
    => LET file == Join(cwd, ClassNameOf(last.arg) \o <<".java">>)
       IN /\ (\A r \in find_root(before, cwd, None) : r.tag = "Some")
               => last.res = "Ok"
          /\ last.res = "Ok"
               => /\ InsideProject(before, cwd)
                  /\ IsFile(fs, file)
                  /\ ContainsSeq(fs[file].text,
                                 <<"class ">> \o ClassNameOf(last.arg) \o <<" {">>)
                  /\ HasEmptyMain(fs[file].text)
                  /\ ~HasImportLine(fs[file].text)
                  /\ SameExceptAt(before, fs, file)

\* C9's case: add_class("aa") wrote Aa.java, and add_class("a") replaced the
\* A.java of an earlier run.
C9_Witness ==
  /\ last.op = "add_class" /\ ~last.dir.some /\ last.res = "Ok"
  /\ \/ /\ last.arg = <<"a", "a">>
        /\ ~Exists(before, Join(cwd, <<"A", "a", ".java">>))
        /\ IsFile(fs, Join(cwd, <<"A", "a", ".java">>))
     \/ /\ last.arg = <<"a">>
        /\ IsFile(before, Join(cwd, <<"A", ".java">>))
        /\ before[Join(cwd, <<"A", ".java">>)].text = OldClass
        /\ fs[Join(cwd, <<"A", ".java">>)].text # OldClass

=============================================================================
